---- MODULE Spec2Model ----
(***************************************************************************)
(* Sharded array partial encoding of zarrs: one shard (chunk [0,0] of the  *)
(* 4x4 array of tests/array_partial_encode.rs), stored as bytes in a       *)
(* key-value store that is reached through a StorageHandle and a           *)
(* performance-metrics adapter.                                            *)
(***************************************************************************)
EXTENDS Integers, Sequences, FiniteSets, TLC

VARIABLES
    index_location,     \* ShardingIndexLocation of the codec: "start" | "end"
    inner_chunk_shape,  \* <<rows, cols>> of one inner chunk
    store,              \* MemoryStore behind the array (partial encoding on)
    store_ref,          \* the same calls run with partial encoding off
    store_perf,         \* PerformanceMetricsStorageAdapter counters
    expected,           \* ghost: per element, the value of the last write covering it
    touched,            \* ghost: elements some write has covered
    appended,           \* ghost: inner-chunk encodings put in the blob since the key was absent
    slots,              \* ghost: for each of these encodings, the inner chunk it was written for
    last,               \* ghost: what the last call was and what it found
    pc,                 \* concurrent writers: position of each
    local,              \* concurrent writers: the call's arguments and locals
    held,               \* concurrent writers: the mutexes that are locked
    CONFIG,             \* config.rs:249  static CONFIG: OnceLock<RwLock<Config>>
    cfg_threads,        \* threads using the global config: position and locals
    cfg_ghost,          \* ghost: write handles taken, last value written to each option
    http_store,         \* the HTTPStore (http.rs:20-23)
    http_server,        \* the HTTP server behind it: what it answers for each key
    http_build,         \* whether the build checks integer overflow (debug) or wraps (release)
    http_call,          \* the read of the HTTPStore that returned last: arguments, requests sent, result
    bitround,           \* the last call of BitroundCodec::create_metadata and its result
    reader              \* a reader of the shard beside a writer: its last retrieve_chunk

vars == <<index_location, inner_chunk_shape, store, store_ref, store_perf,
          expected, touched, appended, slots, last, pc, local, held,
          CONFIG, cfg_threads, cfg_ghost, http_store, http_server, http_build, http_call,
          bitround, reader>>

\* The variables of the shard and those of the rest of the crate.
shard_vars == <<index_location, inner_chunk_shape, store, store_ref, store_perf,
                expected, touched, appended, slots, last, pc, local, held, reader>>

config_vars == <<CONFIG, cfg_threads, cfg_ghost>>

http_vars == <<http_store, http_server, http_build, http_call>>

\* ------------------------------------------------------------------ bounds

\* Most inner-chunk encodings a shard blob may hold before a write is refused.
MaxAppended == 3

\* Most write handles of the global configuration that are taken.
MaxHandles == 2

\* Most key ranges in one call of HTTPStore::get_partial_values.
MaxKeyRanges == 3

\* ------------------------------------------------- the array of the test

\* tests/array_partial_encode.rs:47  regular chunk shape vec![2, 2]
chunk_rows == 2

chunk_cols == 2

\* tests/array_partial_encode.rs:46  DataType::UInt16, size_of::<u16>()
size_of_u16 == 2

\* tests/array_partial_encode.rs:69  size_of::<u64>()
size_of_u64 == 8

\* tests/array_partial_encode.rs:48  FillValue::from(0u16)
fill_value == 0

\* Element values written by the calls (u16): the fill value and two others;
\* 258 = 0x0102 has two different bytes.
Elems == {0, 1, 258}

\* The smaller value set of the specifications that record a history.
ElemsSmall == {0, 258}

\* tests/array_partial_encode.rs:52  inner chunk shape vec![1, 1]; the other
\* shape divides the chunk shape too and makes an inner chunk hold 2 elements.
InnerShapes == {<<1, 1>>, <<1, 2>>}

IndexLocations == {"start", "end"}

\* The chunk key of chunk [0, 0] (chunk_key_encoding().encode(&[0, 0])).
key_0_0 == "c/0/0"

Keys == {key_0_0}

NumElems == chunk_rows * chunk_cols

ElemIds == 0 .. (NumElems - 1)

\* tests/array_partial_encode.rs:68  chunks_per_shard = 2 * 2 for 1x1
chunks_per_shard(ics) == (chunk_rows \div ics[1]) * (chunk_cols \div ics[2])

\* tests/array_partial_encode.rs:69
shard_index_size(ics) == size_of_u64 * 2 * chunks_per_shard(ics)

\* ----------------------------------------------------------- sequences

Max(a, b) == IF a >= b THEN a ELSE b

Min(a, b) == IF a <= b THEN a ELSE b

\* The sum of the first n members of a sequence of numbers.
RECURSIVE SumTo(_, _)
SumTo(s, n) == IF n = 0 THEN 0 ELSE s[n] + SumTo(s, n - 1)

RECURSIVE Concat(_)
Concat(ss) == IF ss = <<>> THEN <<>> ELSE Head(ss) \o Concat(Tail(ss))

\* The ascending sequence of the members of a finite set of integers.
RECURSIVE SortedSeq(_)
SortedSeq(S) ==
    IF S = {} THEN <<>>
    ELSE LET m == CHOOSE x \in S : \A y \in S : x <= y
         IN <<m>> \o SortedSeq(S \ {m})

\* The bytes start .. end (half open, 0-based) of a byte sequence.
Slice(bytes, start, end) == SubSeq(bytes, start + 1, end)

Zeros(n) == [i \in 1 .. n |-> 0]

\* ------------------------------------------------------ array subsets

\* An ArraySubset of the chunk: rows r0..r1, columns c0..c1 (half open).
Subsets ==
    { [r0 |-> r[1], r1 |-> r[2], c0 |-> c[1], c1 |-> c[2]] :
        r \in {<<0, 1>>, <<1, 2>>, <<0, 2>>}, c \in {<<0, 1>>, <<1, 2>>, <<0, 2>>} }

ElemRow(e) == e \div chunk_cols

ElemCol(e) == e % chunk_cols

InSubset(e, s) ==
    /\ s.r0 <= ElemRow(e) /\ ElemRow(e) < s.r1
    /\ s.c0 <= ElemCol(e) /\ ElemCol(e) < s.c1

SubsetElemsOf == [s \in Subsets |-> {e \in ElemIds : InSubset(e, s)}]

SubsetElems(s) == SubsetElemsOf[s]

NumSubsetElems(s) == (s.r1 - s.r0) * (s.c1 - s.c0)

\* Position (1-based) of element e in the row-major data of subset s.
SubsetPos(e, s) == (ElemRow(e) - s.r0) * (s.c1 - s.c0) + (ElemCol(e) - s.c0) + 1

FullChunk == [r0 |-> 0, r1 |-> chunk_rows, c0 |-> 0, c1 |-> chunk_cols]

\* The inner chunk (row-major index in the inner chunk grid) holding element e.
InnerChunkOf(e, ics) ==
    (ElemRow(e) \div ics[1]) * (chunk_cols \div ics[2]) + (ElemCol(e) \div ics[2])

InnerChunkIds(ics) == 0 .. (chunks_per_shard(ics) - 1)

\* The elements of inner chunk c, in row-major order.
InnerChunkElemsOf ==
    [ics \in InnerShapes |->
        [c \in InnerChunkIds(ics) |-> SortedSeq({e \in ElemIds : InnerChunkOf(e, ics) = c})]]

InnerChunkElems(c, ics) == InnerChunkElemsOf[ics][c]

\* The position (1-based) of element e in its inner chunk.
PosInInnerChunkOf ==
    [ics \in InnerShapes |->
        [e \in ElemIds |->
            LET es == InnerChunkElemsOf[ics][InnerChunkOf(e, ics)]
            IN CHOOSE k \in 1 .. Len(es) : es[k] = e]]

PosInInnerChunk(e, ics) == PosInInnerChunkOf[ics][e]

\* The inner chunks a subset overlaps, as a set and in ascending order.
InnerChunksOfTable ==
    [ics \in InnerShapes |->
        [s \in Subsets |-> {InnerChunkOf(e, ics) : e \in SubsetElems(s)}]]

InnerChunksOf(s, ics) == InnerChunksOfTable[ics][s]

InnerChunkSeqOfTable ==
    [ics \in InnerShapes |-> [s \in Subsets |-> SortedSeq(InnerChunksOfTable[ics][s])]]

InnerChunkSeqOf(s, ics) == InnerChunkSeqOfTable[ics][s]

\* A decoded chunk: element e is d[e + 1]. The chunk of fill values:
FillChunk == <<>> \o [i \in 1 .. NumElems |-> fill_value]

\* update_array_bytes: the chunk d with the data of subset s written over it.
UpdateSubset(d, s, data) ==
    <<>> \o [i \in 1 .. NumElems |->
        IF InSubset(i - 1, s) THEN data[SubsetPos(i - 1, s)] ELSE d[i]]

IsFillValue(elems) == \A i \in 1 .. Len(elems) : elems[i] = fill_value

\* ------------------------------------------------------------- the store

\* config.rs:135  store_empty_chunks: false
store_empty_chunks == FALSE

\* A store value: the key is absent, or it holds bytes.
Absent == [present |-> FALSE, bytes |-> <<>>]

Present(bytes) == [present |-> TRUE, bytes |-> bytes]

NoPerf == [reads |-> 0, writes |-> 0, bytes_read |-> 0]

\* ByteRange::FromStart(offset, Some(length)) and ByteRange::FromEnd(length).
FromStart(offset, length) == [tag |-> "FromStart", offset |-> offset, length |-> length]

FromEnd(length) == [tag |-> "FromEnd", offset |-> 0, length |-> length]

\* ByteRange::start(size) and ByteRange::end(size).
RangeStart(r, size) == IF r.tag = "FromStart" THEN r.offset ELSE size - r.length

RangeEnd(r, size) == IF r.tag = "FromStart" THEN r.offset + r.length ELSE size

RangeValid(r, size) ==
    /\ 0 <= RangeStart(r, size)
    /\ RangeStart(r, size) <= RangeEnd(r, size)
    /\ RangeEnd(r, size) <= size

\* MemoryStore::get
Store_get(kv, key) == kv[key]

\* MemoryStore::get_partial_values_key with one byte range:
\* None for an absent key, InvalidByteRange for a range outside the value.
Store_get_partial_values_key(kv, key, range) ==
    LET v == kv[key]
        n == Len(v.bytes)
    IN IF ~v.present THEN [ok |-> TRUE, none |-> TRUE, bytes |-> <<>>]
       ELSE IF ~RangeValid(range, n) THEN [ok |-> FALSE, none |-> FALSE, bytes |-> <<>>]
       ELSE [ok |-> TRUE, none |-> FALSE,
             bytes |-> Slice(v.bytes, RangeStart(range, n), RangeEnd(range, n))]

\* MemoryStore::size_key: the length of the value, 0 standing for None.
Store_size_key(kv, key) == Len(kv[key].bytes)

\* MemoryStore::set: the value is replaced (truncated to the new bytes).
Store_set(kv, key, value) == [kv EXCEPT ![key] = Present(value)]

\* MemoryStore::set_partial_values with one (key, offset, bytes): the bytes
\* overlay the value at the offset; the value is extended (with zeros) when
\* the region ends beyond it, and never truncated.
Store_set_partial_values(kv, key, offset, value) ==
    LET old == kv[key].bytes
        end == offset + Len(value)
        grown == old \o Zeros(Max(end - Len(old), 0))
    IN [kv EXCEPT ![key] = Present(
          SubSeq(grown, 1, offset) \o value \o SubSeq(grown, end + 1, Len(grown)))]

\* MemoryStore::erase (idempotent).
Store_erase(kv, key) == [kv EXCEPT ![key] = Absent]

\* MemoryStore::mutex: the store keeps one mutex per key.
Store_mutex(key) == <<"store", key>>

\* ---------------------------------- PerformanceMetricsStorageAdapter
\* io = [kv |-> the store's values, perf |-> the adapter's counters]

PerfAdapter_get(io, key) ==
    LET v == Store_get(io.kv, key)
    IN [io |-> [io EXCEPT !.perf.reads = @ + 1,
                          !.perf.bytes_read = @ + Len(v.bytes)],
        out |-> v]

PerfAdapter_get_partial_values_key(io, key, range) ==
    LET r == Store_get_partial_values_key(io.kv, key, range)
    IN [io |-> [io EXCEPT !.perf.reads = @ + 1,
                          !.perf.bytes_read = @ + Len(r.bytes)],
        out |-> r]

\* size_key reads no value: it is not counted.
PerfAdapter_size_key(io, key) == Store_size_key(io.kv, key)

PerfAdapter_set(io, key, value) ==
    [io EXCEPT !.kv = Store_set(io.kv, key, value), !.perf.writes = @ + 1]

PerfAdapter_set_partial_values(io, key, offset, value) ==
    [io EXCEPT !.kv = Store_set_partial_values(io.kv, key, offset, value),
               !.perf.writes = @ + 1]

PerfAdapter_erase(io, key) == [io EXCEPT !.kv = Store_erase(io.kv, key)]

PerfAdapter_mutex(key) == Store_mutex(key)

\* ----------------------------------------- faulty StorageHandle methods
\* Forwardings a StorageHandle could get wrong. The model never uses them;
\* each one, put in place of the method named after it, breaks a property
\* stated at the end of the module.

\* set_partial_values forwarded to set: the value is replaced, not overlaid.
StorageHandle_set_partial_values_as_set(io, key, offset, value) ==
    PerfAdapter_set(io, key, value)

\* get_partial_values_key that finds no key.
StorageHandle_get_partial_values_key_none(io, key, range) ==
    [io |-> [io EXCEPT !.perf.reads = @ + 1],
     out |-> [ok |-> TRUE, none |-> TRUE, bytes |-> <<>>]]

\* size_key that reports every value as empty.
StorageHandle_size_key_zero(io, key) == 0

\* erase that leaves the key alone.
StorageHandle_erase_noop(io, key) == io

\* erase forwarded to set with an empty value.
StorageHandle_erase_as_set(io, key) == PerfAdapter_set(io, key, <<>>)

\* mutex that makes a mutex of the handle's own instead of the store's.
StorageHandle_mutex_own(handle, key) == <<handle, key>>

\* ------------------------------------------------------- StorageHandle
\* storage_handle.rs: every method forwards to the storage it borrows.

StorageHandle_get(io, key) == PerfAdapter_get(io, key)

StorageHandle_get_partial_values_key(io, key, range) ==
    PerfAdapter_get_partial_values_key(io, key, range)

StorageHandle_size_key(io, key) == PerfAdapter_size_key(io, key)

StorageHandle_set(io, key, value) == PerfAdapter_set(io, key, value)

StorageHandle_set_partial_values(io, key, offset, value) ==
    PerfAdapter_set_partial_values(io, key, offset, value)

StorageHandle_erase(io, key) == PerfAdapter_erase(io, key)

StorageHandle_mutex(handle, key) == PerfAdapter_mutex(key)

\* ------------------------------------------------------ the shard codec

\* The index entry of an empty inner chunk is (u64::MAX, u64::MAX). U64_MAX
\* stands for 2^64 - 1, which is outside TLC's integers; it is only ever
\* compared, and it encodes to eight 0xFF bytes.
U64_MAX == -1

EmptyEntry == [offset |-> U64_MAX, nbytes |-> U64_MAX]

IsEmptyEntry(e) == e.offset = U64_MAX /\ e.nbytes = U64_MAX

\* A u64 that is neither the sentinel nor below 2^24 (no offset or length of
\* the model is that large): TooLarge stands for every such value.
TooLarge == 16777216

\* u16::to_le_bytes / from_le_bytes.
U16ToBytes(x) == <<x % 256, x \div 256>>

U16FromBytes(b) == b[1] + 256 * b[2]

\* u64::to_le_bytes / from_le_bytes: eight bytes, least significant first.
U64ToBytes(x) ==
    IF x = U64_MAX THEN <<255, 255, 255, 255, 255, 255, 255, 255>>
    ELSE <<x % 256, (x \div 256) % 256, (x \div 65536) % 256, 0, 0, 0, 0, 0>>

U64FromBytes(b) ==
    IF b = <<255, 255, 255, 255, 255, 255, 255, 255>> THEN U64_MAX
    ELSE IF SubSeq(b, 4, 8) # <<0, 0, 0, 0, 0>> THEN TooLarge
    ELSE b[1] + 256 * b[2] + 65536 * b[3]

\* The encoded shard index (no index codecs but the little-endian bytes
\* codec): offset and nbytes of every inner chunk, in row-major chunk order.
EncodeIndex(index) ==
    Concat([c \in 1 .. Len(index) |->
              U64ToBytes(index[c].offset) \o U64ToBytes(index[c].nbytes)])

DecodeIndex(bytes, ics) ==
    <<>> \o [c \in 1 .. chunks_per_shard(ics) |->
        LET at == 2 * size_of_u64 * (c - 1)
        IN [offset |-> U64FromBytes(Slice(bytes, at, at + size_of_u64)),
            nbytes |-> U64FromBytes(Slice(bytes, at + size_of_u64, at + 2 * size_of_u64))]]

EmptyIndex(ics) == <<>> \o [c \in 1 .. chunks_per_shard(ics) |-> EmptyEntry]

IndexIsEmpty(index) == \A c \in 1 .. Len(index) : IsEmptyEntry(index[c])

\* The inner codec chain (bytes codec, little endian, no bytes-to-bytes
\* codecs): the u16 elements of one inner chunk.
EncodeInnerChunk(elems) ==
    Concat([j \in 1 .. Len(elems) |-> U16ToBytes(elems[j])])

DecodeInnerChunk(bytes) ==
    <<>> \o [j \in 1 .. (Len(bytes) \div size_of_u16) |->
        U16FromBytes(Slice(bytes, size_of_u16 * (j - 1), size_of_u16 * j))]

\* The number of elements, and of encoded bytes, of one inner chunk.
InnerChunkNumElems(ics) == ics[1] * ics[2]

InnerChunkSize(ics) == size_of_u16 * InnerChunkNumElems(ics)

\* The elements of inner chunk c of the decoded chunk d.
InnerChunkData(d, c, ics) ==
    LET es == InnerChunkElems(c, ics) IN <<>> \o [j \in 1 .. Len(es) |-> d[es[j] + 1]]

\* The byte range of the index in a shard blob.
IndexByteRange(ics, loc) ==
    IF loc = "start" THEN FromStart(0, shard_index_size(ics))
    ELSE FromEnd(shard_index_size(ics))

\* ShardingCodec::encode. The non-empty inner chunks are packed in chunk
\* order; offsets count from the start of the shard blob, so with the index
\* at the start the first inner chunk is at shard_index_size.
RECURSIVE EncodeShardFrom(_, _, _, _, _, _)
EncodeShardFrom(d, c, ics, offset, index, body) ==
    IF c = chunks_per_shard(ics) THEN [index |-> index, body |-> body]
    ELSE LET elems == InnerChunkData(d, c, ics)
             enc == EncodeInnerChunk(elems)
         IN IF IsFillValue(elems)
            THEN EncodeShardFrom(d, c + 1, ics, offset, index, body)
            ELSE EncodeShardFrom(d, c + 1, ics, offset + Len(enc),
                    [index EXCEPT ![c + 1] = [offset |-> offset, nbytes |-> Len(enc)]],
                    body \o enc)

EncodeShard(d, ics, loc) ==
    LET first == IF loc = "start" THEN shard_index_size(ics) ELSE 0
        r == EncodeShardFrom(d, 0, ics, first, EmptyIndex(ics), <<>>)
    IN IF loc = "start" THEN EncodeIndex(r.index) \o r.body
       ELSE r.body \o EncodeIndex(r.index)

\* The parsed index of a stored shard blob: its first or its last
\* shard_index_size bytes.
ShardIndexOf(bytes, ics, loc) ==
    LET n == Len(bytes)
        r == IndexByteRange(ics, loc)
    IN DecodeIndex(Slice(bytes, RangeStart(r, n), RangeEnd(r, n)), ics)

\* An index entry names bytes of the blob that decode to one inner chunk.
EntryDecodable(e, bytes, ics) ==
    /\ e.offset >= 0
    /\ e.nbytes = InnerChunkSize(ics)
    /\ e.offset + e.nbytes <= Len(bytes)

\* ShardingCodec::decode: every non-empty inner chunk is decoded from its
\* byte range and scattered into the chunk, empty ones are the fill value.
\* ok is FALSE where the codec returns an error.
DecodeShard(bytes, ics, loc) ==
    IF Len(bytes) < shard_index_size(ics) THEN [ok |-> FALSE, elems |-> FillChunk]
    ELSE LET index == ShardIndexOf(bytes, ics, loc)
             good == \A c \in 1 .. Len(index) :
                        IsEmptyEntry(index[c]) \/ EntryDecodable(index[c], bytes, ics)
             Elem(e) ==
                LET c == InnerChunkOf(e, ics)
                    en == index[c + 1]
                    j == PosInInnerChunk(e, ics)
                IN IF IsEmptyEntry(en) THEN fill_value
                   ELSE DecodeInnerChunk(Slice(bytes, en.offset, en.offset + en.nbytes))[j]
         IN IF ~good THEN [ok |-> FALSE, elems |-> FillChunk]
            ELSE [ok |-> TRUE, elems |-> <<>> \o [i \in 1 .. NumElems |-> Elem(i - 1)]]

\* ----------------------------------------------------- the array engine

\* Array::retrieve_chunk: the stored value decoded, or the fill value when
\* the key is absent.
retrieve_chunk(io, key, ics, loc) ==
    LET r == StorageHandle_get(io, key)
    IN [io |-> r.io,
        out |-> IF ~r.out.present THEN [ok |-> TRUE, elems |-> FillChunk]
                ELSE DecodeShard(r.out.bytes, ics, loc)]

\* Array::store_chunk: a chunk of fill values is erased instead of stored
\* unless store_empty_chunks is set.
store_chunk(io, key, d, ics, loc) ==
    IF IsFillValue(d) /\ ~store_empty_chunks THEN StorageHandle_erase(io, key)
    ELSE StorageHandle_set(io, key, EncodeShard(d, ics, loc))

\* ------------------------------------------- the sharding partial encoder
\* The steps of one partial encode of subset s of the shard: read_index,
\* read_inner_chunks, (merge and lay out), write_inner_chunks, write_index.

\* Step 1: one ranged read of the index; an absent key is an empty index.
\* The size of the stored shard is taken with it: new data goes after it.
PE_read_index(io, key, ics, loc) ==
    LET r == StorageHandle_get_partial_values_key(io, key, IndexByteRange(ics, loc))
    IN [io |-> r.io,
        ok |-> r.out.ok,
        size |-> StorageHandle_size_key(io, key),
        index |-> IF r.out.none \/ ~r.out.ok THEN EmptyIndex(ics)
                  ELSE DecodeIndex(r.out.bytes, ics)]

\* Step 2: every inner chunk the subset overlaps is decoded: one ranged read
\* for each that the index does not mark empty, the fill value otherwise.
RECURSIVE PE_read_inner_chunks(_, _, _, _, _)
PE_read_inner_chunks(io, key, index, chunks, ics) ==
    IF chunks = <<>> THEN [io |-> io, ok |-> TRUE, old |-> <<>>]
    ELSE LET en == index[Head(chunks) + 1]
             fill == <<>> \o [j \in 1 .. InnerChunkNumElems(ics) |-> fill_value]
             Rest(io2) == PE_read_inner_chunks(io2, key, index, Tail(chunks), ics)
         IN IF IsEmptyEntry(en)
            THEN LET r == Rest(io) IN [r EXCEPT !.old = <<fill>> \o @]
            ELSE LET g == StorageHandle_get_partial_values_key(
                              io, key, FromStart(en.offset, en.nbytes))
                     good == /\ g.out.ok
                             /\ ~g.out.none
                             /\ Len(g.out.bytes) = InnerChunkSize(ics)
                     r == Rest(g.io)
                 IN [r EXCEPT !.ok = @ /\ good,
                              !.old = <<IF good THEN DecodeInnerChunk(g.out.bytes)
                                        ELSE fill>> \o @]

\* The decoded inner chunks with the data of the subset merged in.
PE_update(old, chunks, s, data, ics) ==
    <<>> \o [k \in 1 .. Len(chunks) |->
        LET es == InnerChunkElems(chunks[k], ics)
        IN <<>> \o [j \in 1 .. Len(es) |->
              IF InSubset(es[j], s) THEN data[SubsetPos(es[j], s)] ELSE old[k][j]]]

\* The updated inner chunks laid out after the existing data: an inner chunk
\* that is now the fill value gets the empty entry and no bytes, every other
\* one is encoded and appended (its old bytes stay where they are).
RECURSIVE PE_layout(_, _, _, _, _)
PE_layout(chunks, updated, offset, index, writes) ==
    IF chunks = <<>> THEN [index |-> index, writes |-> writes, end |-> offset]
    ELSE LET enc == EncodeInnerChunk(Head(updated))
         IN IF IsFillValue(Head(updated))
            THEN PE_layout(Tail(chunks), Tail(updated), offset,
                    [index EXCEPT ![Head(chunks) + 1] = EmptyEntry], writes)
            ELSE PE_layout(Tail(chunks), Tail(updated), offset + Len(enc),
                    [index EXCEPT ![Head(chunks) + 1] =
                        [offset |-> offset, nbytes |-> Len(enc)]],
                    Append(writes, [offset |-> offset, bytes |-> enc]))

\* Where appended data starts in a stored shard of the given size: after
\* everything stored with the index at the start, where the index starts
\* with the index at the end.
PE_offset_new_chunks(size, ics, loc) ==
    IF loc = "start" THEN Max(size, shard_index_size(ics))
    ELSE Max(size - shard_index_size(ics), 0)

PE_plan(index, size, chunks, updated, ics, loc) ==
    LET l == PE_layout(chunks, updated, PE_offset_new_chunks(size, ics, loc),
                       index, <<>>)
    IN [index |-> l.index,
        chunk_writes |-> l.writes,
        index_offset |-> IF loc = "start" THEN 0 ELSE l.end,
        erase |-> IndexIsEmpty(l.index)]

\* Step 3: one store write for every encoded inner chunk.
RECURSIVE PE_write_inner_chunks(_, _, _)
PE_write_inner_chunks(io, key, writes) ==
    IF writes = <<>> THEN io
    ELSE PE_write_inner_chunks(
            StorageHandle_set_partial_values(io, key, Head(writes).offset, Head(writes).bytes),
            key, Tail(writes))

\* Step 4: the new index is written, or the key is erased when every inner
\* chunk of the shard is empty.
PE_write_index(io, key, plan) ==
    IF plan.erase THEN StorageHandle_erase(io, key)
    ELSE StorageHandle_set_partial_values(io, key, plan.index_offset, EncodeIndex(plan.index))

\* ShardingPartialEncoder::partial_encode: the four steps in order.
partial_encode(io, key, s, data, ics, loc) ==
    LET chunks == InnerChunkSeqOf(s, ics)
        a == PE_read_index(io, key, ics, loc)
        b == PE_read_inner_chunks(a.io, key, a.index, chunks, ics)
        plan == PE_plan(a.index, a.size, chunks, PE_update(b.old, chunks, s, data, ics),
                        ics, loc)
        c == PE_write_inner_chunks(b.io, key, plan.chunk_writes)
    IN IF a.ok /\ b.ok
       THEN [io |-> PE_write_index(c, key, plan), ok |-> TRUE,
             n_encoded |-> Len(plan.chunk_writes)]
       ELSE [io |-> b.io, ok |-> FALSE, n_encoded |-> 0]

\* Array::store_chunk_subset: a subset that is the whole chunk is stored with
\* store_chunk; otherwise the partial encoder runs when
\* experimental_partial_encoding is set, and without it the chunk is
\* retrieved, updated and stored again.
store_chunk_subset(io, key, s, data, ics, loc, experimental_partial_encoding) ==
    IF s = FullChunk
    THEN [io |-> store_chunk(io, key, data, ics, loc), ok |-> TRUE, n_encoded |-> 0]
    ELSE IF experimental_partial_encoding
    THEN partial_encode(io, key, s, data, ics, loc)
    ELSE LET r == retrieve_chunk(io, key, ics, loc)
         IN IF r.out.ok
            THEN [io |-> store_chunk(r.io, key, UpdateSubset(r.out.elems, s, data), ics, loc),
                  ok |-> TRUE, n_encoded |-> 0]
            ELSE [io |-> r.io, ok |-> FALSE, n_encoded |-> 0]

\* --------------------------------------------------------------- HTTPStore
\* http.rs: a read-only store; every read is a HEAD and/or GET request to a
\* server. The server is the environment: what it answers for a key is
\* fixed when the model starts.

HttpKeys == {"a", "b"}

\* The values the server holds and the body of its 404 response.
HttpValues == [a |-> <<10, 11, 12>>, b |-> <<20, 21>>]

ErrorPage == <<4, 0, 4>>

\* How the server answers for one key: whether the key exists, whether a
\* HEAD response carries Content-Length, and what a ranged GET of an
\* existing key gets: "206" the requested ranges, "200" the full content,
\* "206_short" a partial content that lacks a byte, "500" an error status.
KeyBehaviours ==
    { [present |-> p, content_length |-> h, mode |-> m] :
        p \in BOOLEAN, h \in BOOLEAN, m \in {"206", "200", "206_short", "500"} }

Servers ==
    { [a |-> [present |-> TRUE, content_length |-> TRUE, mode |-> "206"], b |-> sb] :
        sb \in {x \in KeyBehaviours : ~(x.present /\ x.content_length) => x.mode = "206"} }

Server_body(server, key) ==
    IF server[key].present THEN HttpValues[key] ELSE ErrorPage

\* The byte ranges a read may name: an empty range at offset 0, an empty
\* range at offset 1, the first two bytes, the last byte.
ByteRanges == {FromStart(0, 0), FromStart(1, 0), FromStart(0, 2), FromEnd(1)}

\* Empty ranges are asked of key "a" only, whose server always answers.
NonEmptyByteRanges == {r \in ByteRanges : r.length > 0}

KeyRanges ==
    {[key |-> "a", byte_range |-> r] : r \in ByteRanges}
        \cup {[key |-> "b", byte_range |-> r] : r \in NonEmptyByteRanges}

\* One "first-last" of a Range header. A last below first is not a byte
\* range; U64_MAX as last is beyond every content.
RangeSpecInvalid(sp) == sp.last # U64_MAX /\ sp.last < sp.first

RangeSpecBytes(sp, body) ==
    IF sp.first >= Len(body) THEN <<>>
    ELSE Slice(body, sp.first,
               IF sp.last = U64_MAX THEN Len(body) ELSE Min(sp.last + 1, Len(body)))

\* The response to GET with the header Range: bytes=<specs> (no Range header
\* when specs is empty). A server ignores a Range header that has a spec
\* that is not a byte range and sends the full content.
Server_get(server, key, specs) ==
    LET b == server[key]
        body == Server_body(server, key)
        parts == Concat([i \in 1 .. Len(specs) |-> RangeSpecBytes(specs[i], body)])
    IN IF ~b.present THEN [status |-> 404, body |-> body]
       ELSE IF specs = <<>> THEN [status |-> 200, body |-> body]
       ELSE IF b.mode = "500" THEN [status |-> 500, body |-> <<>>]
       ELSE IF b.mode = "200" \/ \E i \in 1 .. Len(specs) : RangeSpecInvalid(specs[i])
       THEN [status |-> 200, body |-> body]
       ELSE IF \A i \in 1 .. Len(specs) : specs[i].first >= Len(body)
       THEN [status |-> 416, body |-> <<>>]
       ELSE IF b.mode = "206_short" /\ parts # <<>>
       THEN [status |-> 206, body |-> SubSeq(parts, 1, Len(parts) - 1)]
       ELSE [status |-> 206, body |-> parts]

\* The Content-Length of the response to HEAD, when it has one.
Server_head(server, key) ==
    [has_length |-> server[key].content_length,
     length |-> Len(Server_body(server, key))]

Ok(bytes) == [ok |-> TRUE, err |-> "", bytes |-> bytes]

Err(kind) == [ok |-> FALSE, err |-> kind, bytes |-> <<>>]

\* HTTPStore::new: batch_range_requests is true.
HTTPStore_new == [batch_range_requests |-> TRUE]

\* HTTPStore::size_key: the Content-Length of a HEAD response.
HTTPStore_size_key(server, key) ==
    LET h == Server_head(server, key)
    IN IF h.has_length THEN [ok |-> TRUE, size |-> h.length]
       ELSE [ok |-> FALSE, size |-> 0]

HeadRequest(key) == [method |-> "HEAD", key |-> key, range |-> <<>>]

GetRequest(key, specs) == [method |-> "GET", key |-> key, range |-> specs]

\* byte_range.end(size) - 1 in u64: with end = 0 the subtraction overflows,
\* which panics in a build with overflow checks and wraps to u64::MAX in one
\* without.
RangeLast(r, size) ==
    IF RangeEnd(r, size) = 0 THEN U64_MAX ELSE RangeEnd(r, size) - 1

\* HTTPStore::get_impl: HEAD for the size, one GET with all byte ranges in
\* its Range header, and the response split into the ranges.
\* [panic, res: Ok(<<bytes, ...>>) or Err, reqs: the requests sent].
HTTPStore_get_impl(server, key, byte_ranges, overflow_checks) ==
    LET n == Len(byte_ranges)
        sz == HTTPStore_size_key(server, key)
        size == sz.size
        specs == <<>> \o [i \in 1 .. n |->
                    [first |-> RangeStart(byte_ranges[i], size),
                     last |-> RangeLast(byte_ranges[i], size)]]
        response == Server_get(server, key, specs)
        bytes == response.body
        lengths == [i \in 1 .. n |-> byte_ranges[i].length]
        sent == <<HeadRequest(key), GetRequest(key, specs)>>
    IN IF ~sz.ok
       THEN [panic |-> FALSE, res |-> Err("Other"), reqs |-> <<HeadRequest(key)>>]
       ELSE IF overflow_checks /\ \E i \in 1 .. n : RangeEnd(byte_ranges[i], size) = 0
       THEN [panic |-> TRUE, res |-> Err("panic"), reqs |-> <<HeadRequest(key)>>]
       ELSE IF response.status = 404
       THEN [panic |-> FALSE, res |-> Err("KeyNotFound"), reqs |-> sent]
       ELSE IF response.status = 206
       THEN IF Len(bytes) = SumTo(lengths, n)
            THEN [panic |-> FALSE,
                  res |-> Ok(<<>> \o [i \in 1 .. n |->
                            Slice(bytes, SumTo(lengths, i - 1), SumTo(lengths, i))]),
                  reqs |-> sent]
            ELSE [panic |-> FALSE, res |-> Err("Other"), reqs |-> sent]
       ELSE IF response.status = 200
       THEN IF \E i \in 1 .. n :
                  \/ RangeStart(byte_ranges[i], size) > RangeEnd(byte_ranges[i], size)
                  \/ RangeEnd(byte_ranges[i], size) > Len(bytes)
            THEN [panic |-> TRUE, res |-> Err("panic"), reqs |-> sent]
            ELSE [panic |-> FALSE,
                  res |-> Ok(<<>> \o [i \in 1 .. n |->
                            Slice(bytes, RangeStart(byte_ranges[i], size),
                                         RangeEnd(byte_ranges[i], size))]),
                  reqs |-> sent]
       ELSE [panic |-> FALSE, res |-> Err("Other"), reqs |-> sent]

\* HTTPStore::get_impl_err: one result for every byte range, the error of
\* get_impl copied to each.
HTTPStore_get_impl_err(server, key, byte_ranges, overflow_checks) ==
    LET r == HTTPStore_get_impl(server, key, byte_ranges, overflow_checks)
    IN [panic |-> r.panic,
        out |-> IF r.res.ok
                THEN <<>> \o [i \in 1 .. Len(byte_ranges) |-> Ok(r.res.bytes[i])]
                ELSE <<>> \o [i \in 1 .. Len(byte_ranges) |->
                        IF r.res.err = "KeyNotFound" THEN Err("KeyNotFound")
                        ELSE Err("Other")],
        reqs |-> r.reqs]

\* HTTPStore::get: one GET without a Range header; the body of the response
\* is the result, whatever its status.
HTTPStore_get(server, key) ==
    [panic |-> FALSE,
     out |-> <<Ok(Server_get(server, key, <<>>).body)>>,
     reqs |-> <<GetRequest(key, <<>>)>>]

\* One get_impl_err appended to what get_partial_values has so far; nothing
\* more happens after a panic.
Extend(acc, server, key, byte_ranges, overflow_checks) ==
    IF acc.panic THEN acc
    ELSE LET r == HTTPStore_get_impl_err(server, key, byte_ranges, overflow_checks)
         IN [panic |-> r.panic, out |-> acc.out \o r.out, reqs |-> acc.reqs \o r.reqs]

\* The loop of the batched branch from key range i on: group holds the byte
\* ranges of last_key that no request was sent for yet.
RECURSIVE BatchedFrom(_, _, _, _, _, _, _)
BatchedFrom(server, key_ranges, i, last_key, group, acc, overflow_checks) ==
    IF i > Len(key_ranges)
    THEN IF group # <<>> THEN Extend(acc, server, last_key, group, overflow_checks)
         ELSE acc
    ELSE LET key_range == key_ranges[i]
         IN IF i > 1 /\ key_range.key # last_key
            THEN BatchedFrom(server, key_ranges, i + 1, key_range.key,
                             <<key_range.byte_range>>,
                             Extend(acc, server, last_key, group, overflow_checks),
                             overflow_checks)
            ELSE BatchedFrom(server, key_ranges, i + 1, key_range.key,
                             Append(group, key_range.byte_range), acc, overflow_checks)

\* The loop of the other branch: one get_impl_err for every key range.
RECURSIVE UnbatchedFrom(_, _, _, _, _)
UnbatchedFrom(server, key_ranges, i, acc, overflow_checks) ==
    IF i > Len(key_ranges) THEN acc
    ELSE UnbatchedFrom(server, key_ranges, i + 1,
                       Extend(acc, server, key_ranges[i].key,
                              <<key_ranges[i].byte_range>>, overflow_checks),
                       overflow_checks)

NoResults == [panic |-> FALSE, out |-> <<>>, reqs |-> <<>>]

\* get_partial_values without its batched branch.
HTTPStore_get_partial_values_unbatched(self, server, key_ranges, overflow_checks) ==
    UnbatchedFrom(server, key_ranges, 1, NoResults, overflow_checks)

\* HTTPStore::get_partial_values.
HTTPStore_get_partial_values(self, server, key_ranges, overflow_checks) ==
    IF self.batch_range_requests
    THEN BatchedFrom(server, key_ranges, 1, "", <<>>, NoResults, overflow_checks)
    ELSE UnbatchedFrom(server, key_ranges, 1, NoResults, overflow_checks)

NoHttpCall == [op |-> "none", key_ranges |-> <<>>, panic |-> FALSE, out |-> <<>>,
               reqs |-> <<>>]

HttpIdle ==
    /\ http_store = HTTPStore_new
    /\ http_server = [a |-> [present |-> TRUE, content_length |-> TRUE, mode |-> "206"],
                      b |-> [present |-> TRUE, content_length |-> TRUE, mode |-> "206"]]
    /\ http_build = [overflow_checks |-> TRUE]
    /\ http_call = NoHttpCall

\* ------------------------------------------------ the global configuration
\* config.rs: static CONFIG: OnceLock<RwLock<Config>>, reached through
\* global_config() (a read guard) and global_config_mut() (a write guard).

\* The options of Config that are modelled (config.rs:87-96).
Options == {"validate_checksums", "experimental_codec_store_metadata_if_encode_only"}

\* impl Default for Config (config.rs:129-146).
Config_default ==
    [validate_checksums |-> TRUE,
     experimental_codec_store_metadata_if_encode_only |-> FALSE]

\* The threads that use the global configuration.
Threads == {1, 2, 3}

NoThread == 0

\* OnceLock::new(): nothing is stored, there is no lock yet. inits is a
\* ghost: how often the closure of get_or_init ran (0, 1, or 2 for more).
OnceLock_new == [initialised |-> FALSE, config |-> Config_default,
                 writer |-> NoThread, readers |-> {}, inits |-> 0]

\* The OnceLock that always runs its closure: every access stores a new
\* Config::default().
OnceLock_get_or_init_always(c) ==
    [c EXCEPT !.initialised = TRUE, !.config = Config_default,
              !.inits = Min(@ + 1, 2)]

\* CONFIG.get_or_init(|| RwLock::new(Config::default())): the closure runs
\* only when nothing is stored yet.
OnceLock_get_or_init(c) ==
    IF c.initialised THEN c
    ELSE [c EXCEPT !.initialised = TRUE, !.config = Config_default,
                   !.inits = Min(@ + 1, 2)]

\* RwLock::read returns when no writer holds the lock.
RwLock_read_ready(c) == c.writer = NoThread

\* A write() that waits for the other writers only.
RwLock_write_ready_no_readers(c) == c.writer = NoThread

\* RwLock::write returns when nobody holds the lock.
RwLock_write_ready(c) == c.writer = NoThread /\ c.readers = {}

\* What a thread keeps: where it is, the options it still has to read or set
\* under its guard, and what it read (with, as ghosts, the value and the write
\* handle last written to the option when it read it).
NoSeen == [o \in Options |-> [read |-> FALSE, value |-> FALSE, latest |-> FALSE, handle |-> 0]]

IdleThread == [pc |-> "idle", todo |-> {}, seen |-> NoSeen]

NoConfigGhost ==
    [handles |-> 0,
     latest |-> Config_default,
     handle |-> [o \in Options |-> 0]]

ConfigInit ==
    /\ CONFIG = OnceLock_new
    /\ cfg_threads = [t \in Threads |-> IdleThread]
    /\ cfg_ghost = NoConfigGhost

\* ----------------------------------------------------------- BitroundCodec
\* bitround_codec.rs: the codec and the metadata it creates.

\* The keepbits of the codecs that are created.
Keepbits == {3, 10}

NoMetadata == [some |-> FALSE, name |-> "", keepbits |-> 0]

SomeMetadata(name, keepbits) == [some |-> TRUE, name |-> name, keepbits |-> keepbits]

\* BitroundCodec::new
BitroundCodec_new(keepbits) == [keepbits |-> keepbits]

\* BitroundCodec::create_metadata: None, whatever the configuration holds
\* (the construction of the metadata is commented out).
BitroundCodec_create_metadata(self) == NoMetadata

\* No call of create_metadata yet.
NoCreateMetadata ==
    [called |-> FALSE, keepbits |-> 0, option |-> FALSE, writing |-> FALSE,
     result |-> NoMetadata]

BitroundIdle == bitround = NoCreateMetadata

\* ------------------------------------------------------- sequential calls

\* The two concurrent writers of the shard key.
Procs == {1, 2}

\* What a writer keeps between the steps of its partial encode.
NoLocal == [subset |-> FullChunk, data |-> <<>>, size |-> 0, index |-> <<>>,
            plan |-> <<>>]

\* What is kept of the last call. The last four fields are recorded only
\* where the coverage of the inner chunks and the shard size are looked at.
\* No retrieve_chunk of the reader yet. before is a ghost: the chunk as
\* written when the writer beside the reader started.
NoRead == [done |-> FALSE, ok |-> TRUE, elems |-> FillChunk, before |-> FillChunk,
           during |-> "idle"]

NoCall == [op |-> "none", existed |-> FALSE, nonempty_before |-> 0, rewritten |-> 0,
           covered_nonempty |-> 0, partly_nonempty |-> 0, size_before |-> 0,
           size_after |-> 0]

\* The subset holds every element of inner chunk c.
FullyCovers(s, c, ics) ==
    \A j \in 1 .. InnerChunkNumElems(ics) : InSubset(InnerChunkElems(c, ics)[j], s)

\* The number of inner chunks among cs that are not the fill value in chunk d.
NumNonEmpty(d, cs, ics) ==
    Cardinality({c \in cs : ~IsFillValue(InnerChunkData(d, c, ics))})

\* The data a call may pass for subset s: every choice of values for a
\* subset of one or two elements, the smaller value set for the whole chunk.
SubsetData(s) ==
    IF s = FullChunk THEN [1 .. NumSubsetElems(s) -> ElemsSmall]
    ELSE [1 .. NumSubsetElems(s) -> Elems]

SubsetDataSmall(s) == [1 .. NumSubsetElems(s) -> ElemsSmall]

InitWith(shapes) ==
    /\ index_location \in IndexLocations
    /\ inner_chunk_shape \in shapes
    /\ store = [k \in Keys |-> Absent]
    /\ store_ref = [k \in Keys |-> Absent]
    /\ store_perf = NoPerf
    /\ expected = FillChunk
    /\ touched = {}
    /\ appended = 0
    /\ slots = <<>>
    /\ last = NoCall
    /\ pc = [p \in Procs |-> "idle"]
    /\ local = [p \in Procs |-> NoLocal]
    /\ held = {}
    /\ reader = NoRead
    /\ ConfigInit
    /\ HttpIdle /\ BitroundIdle

\* The array of the test: inner chunk shape vec![1, 1].
Init == InitWith({<<1, 1>>})

\* array.store_array_subset_elements_opt(subset, data, opt) on chunk [0, 0].
\* rec names the history that is recorded: "perf" the adapter's counters for
\* this call (the test resets them before it) and what the call found,
\* "touched" the elements written so far, "slots" the inner chunk of every
\* encoding in the blob, "ref" the same call on an array without
\* experimental_partial_encoding.
StoreArraySubset(s, data, rec) ==
    LET ics == inner_chunk_shape
        loc == index_location
        r == store_chunk_subset([kv |-> store, perf |-> NoPerf], key_0_0, s, data,
                                ics, loc, TRUE)
        ref == store_chunk_subset([kv |-> store_ref, perf |-> NoPerf], key_0_0, s, data,
                                  ics, loc, FALSE)
        after == UpdateSubset(expected, s, data)
        cs == InnerChunksOf(s, ics)
        n_new == NumNonEmpty(after, cs, ics)
        written == SelectSeq(InnerChunkSeqOf(s, ics),
                             LAMBDA c : ~IsFillValue(InnerChunkData(after, c, ics)))
        total == IF IsFillValue(after) THEN 0
                 ELSE IF s = FullChunk THEN n_new
                 ELSE appended + n_new
    IN /\ total <= MaxAppended
       /\ r.ok
       /\ store' = r.io.kv
       /\ expected' = after
       /\ appended' = total
       /\ IF "perf" \in rec
          THEN /\ store_perf' = r.io.perf
               /\ last' = [op |-> IF s = FullChunk THEN "store_chunk" ELSE "partial_encode",
                           existed |-> store[key_0_0].present,
                           nonempty_before |-> NumNonEmpty(expected, cs, ics),
                           rewritten |-> n_new,
                           covered_nonempty |->
                               IF "cover" \in rec
                               THEN NumNonEmpty(expected,
                                        {c \in cs : FullyCovers(s, c, ics)}, ics)
                               ELSE 0,
                           partly_nonempty |->
                               IF "cover" \in rec
                               THEN NumNonEmpty(expected,
                                        {c \in cs : ~FullyCovers(s, c, ics)}, ics)
                               ELSE 0,
                           size_before |->
                               IF "cover" \in rec /\ store[key_0_0].present
                               THEN Len(store[key_0_0].bytes) ELSE 0,
                           size_after |->
                               IF "cover" \in rec /\ store'[key_0_0].present
                               THEN Len(store'[key_0_0].bytes) ELSE 0]
          ELSE UNCHANGED <<store_perf, last>>
       /\ IF "touched" \in rec
          THEN touched' = touched \cup SubsetElems(s)
          ELSE UNCHANGED touched
       /\ IF "slots" \in rec
          THEN slots' = IF IsFillValue(after) THEN <<>>
                        ELSE IF s = FullChunk THEN written
                        ELSE slots \o written
          ELSE UNCHANGED slots
       /\ IF "ref" \in rec
          THEN ref.ok /\ store_ref' = ref.io.kv
          ELSE UNCHANGED store_ref
       /\ UNCHANGED <<index_location, inner_chunk_shape, pc, local, held>>
       /\ UNCHANGED <<config_vars, http_vars, bitround, reader>>

Next == \E s \in Subsets : \E data \in SubsetData(s) : StoreArraySubset(s, data, {})

Spec == Init /\ [][Next]_vars

\* The same calls, and beside them the array without partial encoding.
NextRef == \E s \in Subsets : \E data \in SubsetData(s) : StoreArraySubset(s, data, {"ref"})

SpecRef == Init /\ [][NextRef]_vars

\* The calls with the adapter's counters read after each, for every inner
\* chunk shape that divides the chunk.
InitShapes == InitWith(InnerShapes)

NextPerf ==
    \E s \in Subsets : \E data \in SubsetDataSmall(s) : StoreArraySubset(s, data, {"perf"})

SpecPerf == InitShapes /\ [][NextPerf]_vars

\* The calls with the counters, the coverage of the overlapped inner chunks
\* and the stored size before and after recorded.
NextCover ==
    \E s \in Subsets : \E data \in SubsetDataSmall(s) :
        StoreArraySubset(s, data, {"perf", "cover"})

SpecCover == InitShapes /\ [][NextCover]_vars

\* The calls with the written elements recorded.
NextTouched ==
    \E s \in Subsets : \E data \in SubsetDataSmall(s) : StoreArraySubset(s, data, {"touched"})

SpecTouched == InitShapes /\ [][NextTouched]_vars

\* The calls with the inner chunk of every stored encoding recorded.
NextSlots ==
    \E s \in Subsets : \E data \in SubsetDataSmall(s) : StoreArraySubset(s, data, {"slots"})

SpecSlots == InitShapes /\ [][NextSlots]_vars

\* ------------------------------------------------------ concurrent calls
\* Two writers, each doing one partial encode of the shard key under the
\* key's mutex. Writer 1 takes the mutex from the storage itself, writer 2
\* through a StorageHandle of it (storage_handle.rs:114).

MutexOf(p) ==
    IF p = 1 THEN PerfAdapter_mutex(key_0_0)
    ELSE StorageHandle_mutex("handle", key_0_0)

\* The chunks the shard may hold when the writers start.
InitChunks == {FillChunk, <<1, 0, 0, 1>>}

\* The shard was stored with store_chunk before the writers start.
InitConc ==
    /\ index_location \in IndexLocations
    /\ inner_chunk_shape \in InnerShapes
    /\ expected \in InitChunks
    /\ store = [k \in Keys |->
                  store_chunk([kv |-> [j \in Keys |-> Absent], perf |-> NoPerf],
                              k, expected, inner_chunk_shape, index_location).kv[k]]
    /\ store_ref = [k \in Keys |-> Absent]
    /\ store_perf = NoPerf
    /\ touched = {}
    /\ appended = 0
    /\ slots = <<>>
    /\ last = NoCall
    /\ pc = [p \in Procs |-> "idle"]
    /\ local = [p \in Procs |-> NoLocal]
    /\ held = {}
    /\ reader = NoRead
    /\ ConfigInit
    /\ HttpIdle /\ BitroundIdle

IoOf(kv) == [kv |-> kv, perf |-> NoPerf]

\* The writer locks the mutex of the key (it waits while the mutex is held).
Lock(p, s, data) ==
    /\ pc[p] = "idle"
    /\ MutexOf(p) \notin held
    /\ held' = held \cup {MutexOf(p)}
    /\ local' = [local EXCEPT ![p] = [NoLocal EXCEPT !.subset = s, !.data = data]]
    /\ expected' = UpdateSubset(expected, s, data)
    /\ pc' = [pc EXCEPT ![p] = "read_index"]
    /\ UNCHANGED <<index_location, inner_chunk_shape, store, store_ref, store_perf,
                   touched, appended, slots, last>>
    /\ UNCHANGED <<config_vars, http_vars, bitround, reader>>

ReadIndex(p) ==
    /\ pc[p] = "read_index"
    /\ LET a == PE_read_index(IoOf(store), key_0_0, inner_chunk_shape, index_location)
       IN /\ local' = [local EXCEPT ![p].size = a.size, ![p].index = a.index]
          /\ pc' = [pc EXCEPT ![p] = IF a.ok THEN "read_inner_chunks" ELSE "failed"]
    /\ UNCHANGED <<index_location, inner_chunk_shape, store, store_ref, store_perf,
                   expected, touched, appended, slots, last, held>>
    /\ UNCHANGED <<config_vars, http_vars, bitround, reader>>

\* The overlapped inner chunks are read and merged with the data, and the
\* new layout is computed.
ReadInnerChunks(p) ==
    /\ pc[p] = "read_inner_chunks"
    /\ LET l == local[p]
           chunks == InnerChunkSeqOf(l.subset, inner_chunk_shape)
           b == PE_read_inner_chunks(IoOf(store), key_0_0, l.index, chunks,
                                     inner_chunk_shape)
           plan == PE_plan(l.index, l.size, chunks,
                           PE_update(b.old, chunks, l.subset, l.data, inner_chunk_shape),
                           inner_chunk_shape, index_location)
       IN /\ local' = [local EXCEPT ![p].plan = plan]
          /\ pc' = [pc EXCEPT ![p] = IF b.ok THEN "write_inner_chunks" ELSE "failed"]
    /\ UNCHANGED <<index_location, inner_chunk_shape, store, store_ref, store_perf,
                   expected, touched, appended, slots, last, held>>
    /\ UNCHANGED <<config_vars, http_vars, bitround, reader>>

WriteInnerChunks(p) ==
    /\ pc[p] = "write_inner_chunks"
    /\ store' = PE_write_inner_chunks(IoOf(store), key_0_0, local[p].plan.chunk_writes).kv
    /\ pc' = [pc EXCEPT ![p] = "write_index"]
    /\ UNCHANGED <<index_location, inner_chunk_shape, store_ref, store_perf,
                   expected, touched, appended, slots, last, local, held>>
    /\ UNCHANGED <<config_vars, http_vars, bitround, reader>>

WriteIndex(p) ==
    /\ pc[p] = "write_index"
    /\ store' = PE_write_index(IoOf(store), key_0_0, local[p].plan).kv
    /\ pc' = [pc EXCEPT ![p] = "unlock"]
    /\ UNCHANGED <<index_location, inner_chunk_shape, store_ref, store_perf,
                   expected, touched, appended, slots, last, local, held>>
    /\ UNCHANGED <<config_vars, http_vars, bitround, reader>>

\* The guard of the mutex is dropped when the partial encode returns, with
\* its result or with an error.
Unlock(p) ==
    /\ pc[p] \in {"unlock", "failed"}
    /\ held' = held \ {MutexOf(p)}
    /\ pc' = [pc EXCEPT ![p] = IF pc[p] = "unlock" THEN "done" ELSE "error"]
    /\ UNCHANGED <<index_location, inner_chunk_shape, store, store_ref, store_perf,
                   expected, touched, appended, slots, last, local>>
    /\ UNCHANGED <<config_vars, http_vars, bitround, reader>>

NextConc ==
    \E p \in Procs :
        \/ \E s \in Subsets \ {FullChunk} : \E data \in SubsetDataSmall(s) : Lock(p, s, data)
        \/ ReadIndex(p)
        \/ ReadInnerChunks(p)
        \/ WriteInnerChunks(p)
        \/ WriteIndex(p)
        \/ Unlock(p)

SpecConc == InitConc /\ [][NextConc]_vars

\* -------------------------------------------- a reader beside one writer
\* Writer 1 does one partial encode of the shard key under the key's mutex,
\* every store write a step of its own; the reader calls retrieve_chunk of
\* the same key at any time and takes no mutex.

InitRead ==
    /\ index_location \in IndexLocations
    /\ inner_chunk_shape \in InnerShapes
    /\ expected \in InitChunks
    /\ store = [k \in Keys |->
                  store_chunk([kv |-> [j \in Keys |-> Absent], perf |-> NoPerf],
                              k, expected, inner_chunk_shape, index_location).kv[k]]
    /\ store_ref = [k \in Keys |-> Absent]
    /\ store_perf = NoPerf
    /\ touched = {}
    /\ appended = 0
    /\ slots = <<>>
    /\ last = NoCall
    /\ pc = [p \in Procs |-> "idle"]
    /\ local = [p \in Procs |-> NoLocal]
    /\ held = {}
    /\ reader = [NoRead EXCEPT !.before = expected]
    /\ ConfigInit
    /\ HttpIdle /\ BitroundIdle

\* The next inner-chunk write of the plan, one store write; after the last
\* one (or when there is none) the index is next.
WriteInnerChunk(p) ==
    /\ pc[p] = "write_inner_chunks"
    /\ LET writes == local[p].plan.chunk_writes
       IN /\ store' = IF writes = <<>> THEN store
                      ELSE PE_write_inner_chunks(IoOf(store), key_0_0, <<Head(writes)>>).kv
          /\ local' = [local EXCEPT ![p].plan.chunk_writes =
                          IF writes = <<>> THEN <<>> ELSE Tail(writes)]
          /\ pc' = [pc EXCEPT ![p] = IF Len(writes) <= 1 THEN "write_index"
                                     ELSE "write_inner_chunks"]
    /\ UNCHANGED <<index_location, inner_chunk_shape, store_ref, store_perf,
                   expected, touched, appended, slots, last, held>>
    /\ UNCHANGED <<config_vars, http_vars, bitround, reader>>

\* Array::retrieve_chunk by the reader: one get of the key, decoded. during
\* is a ghost: where the writer was.
RetrieveChunk ==
    /\ LET r == retrieve_chunk(IoOf(store), key_0_0, inner_chunk_shape, index_location)
       IN reader' = [reader EXCEPT !.done = TRUE, !.ok = r.out.ok,
                                   !.elems = r.out.elems, !.during = pc[1]]
    /\ UNCHANGED <<index_location, inner_chunk_shape, store, store_ref, store_perf,
                   expected, touched, appended, slots, last, pc, local, held>>
    /\ UNCHANGED <<config_vars, http_vars, bitround>>

NextRead ==
    \/ \E s \in Subsets \ {FullChunk} : \E data \in SubsetDataSmall(s) : Lock(1, s, data)
    \/ ReadIndex(1)
    \/ ReadInnerChunks(1)
    \/ WriteInnerChunk(1)
    \/ WriteIndex(1)
    \/ Unlock(1)
    \/ RetrieveChunk

SpecRead == InitRead /\ [][NextRead]_vars

\* ------------------------------------- threads using the global configuration

\* The shard is not used while the configuration is.
ShardIdle ==
    /\ index_location = "end"
    /\ inner_chunk_shape = <<1, 1>>
    /\ store = [k \in Keys |-> Absent]
    /\ store_ref = [k \in Keys |-> Absent]
    /\ store_perf = NoPerf
    /\ expected = FillChunk
    /\ touched = {}
    /\ appended = 0
    /\ slots = <<>>
    /\ last = NoCall
    /\ pc = [p \in Procs |-> "idle"]
    /\ local = [p \in Procs |-> NoLocal]
    /\ held = {}
    /\ reader = NoRead

InitConfig == ShardIdle /\ ConfigInit /\ HttpIdle /\ BitroundIdle

\* The first half of global_config() and of global_config_mut():
\* CONFIG.get_or_init(..). The thread goes on to read() or to write().
GetOrInit(t, guard) ==
    /\ cfg_threads[t].pc = "idle"
    /\ guard = "write" => cfg_ghost.handles < MaxHandles
    /\ CONFIG' = OnceLock_get_or_init(CONFIG)
    /\ cfg_threads' = [cfg_threads EXCEPT ![t].pc = guard]
    /\ UNCHANGED <<cfg_ghost, shard_vars, http_vars, bitround>>

\* global_config(): .read().unwrap()
GlobalConfigRead(t) ==
    /\ cfg_threads[t].pc = "read"
    /\ RwLock_read_ready(CONFIG)
    /\ CONFIG' = [CONFIG EXCEPT !.readers = @ \cup {t}]
    /\ cfg_threads' = [cfg_threads EXCEPT ![t] = [pc |-> "reading", todo |-> Options,
                                                   seen |-> NoSeen]]
    /\ UNCHANGED <<cfg_ghost, shard_vars, http_vars, bitround>>

\* An option is read through the read guard.
ReadOption(t, o) ==
    /\ cfg_threads[t].pc = "reading"
    /\ o \in cfg_threads[t].todo
    /\ cfg_threads' = [cfg_threads EXCEPT
          ![t].todo = @ \ {o},
          ![t].seen[o] = [read |-> TRUE, value |-> CONFIG.config[o],
                          latest |-> cfg_ghost.latest[o],
                          handle |-> cfg_ghost.handle[o]]]
    /\ UNCHANGED <<CONFIG, cfg_ghost, shard_vars, http_vars, bitround>>

\* The read guard is dropped, after any number of reads.
DropRead(t) ==
    /\ cfg_threads[t].pc = "reading"
    /\ CONFIG' = [CONFIG EXCEPT !.readers = @ \ {t}]
    /\ cfg_threads' = [cfg_threads EXCEPT ![t] = IdleThread]
    /\ UNCHANGED <<cfg_ghost, shard_vars, http_vars, bitround>>

\* global_config_mut(): .write().unwrap()
GlobalConfigMutWrite(t) ==
    /\ cfg_threads[t].pc = "write"
    /\ RwLock_write_ready(CONFIG)
    /\ CONFIG' = [CONFIG EXCEPT !.writer = t]
    /\ cfg_ghost' = [cfg_ghost EXCEPT !.handles = @ + 1]
    /\ cfg_threads' = [cfg_threads EXCEPT ![t] = [pc |-> "writing", todo |-> Options,
                                                   seen |-> NoSeen]]
    /\ UNCHANGED <<shard_vars, http_vars, bitround>>

\* Config::set_<option>(v) through the write guard (config.rs:156-159,
\* 204-210). A thread sets every option under one guard, one after the other.
SetOption(t, o, v) ==
    /\ cfg_threads[t].pc = "writing"
    /\ o \in cfg_threads[t].todo
    /\ CONFIG' = [CONFIG EXCEPT !.config[o] = v]
    /\ cfg_ghost' = [cfg_ghost EXCEPT !.latest[o] = v, !.handle[o] = cfg_ghost.handles]
    /\ cfg_threads' = [cfg_threads EXCEPT ![t].todo = @ \ {o}]
    /\ UNCHANGED <<shard_vars, http_vars, bitround>>

\* The write guard is dropped when every option is set.
DropWrite(t) ==
    /\ cfg_threads[t].pc = "writing"
    /\ cfg_threads[t].todo = {}
    /\ CONFIG' = [CONFIG EXCEPT !.writer = NoThread]
    /\ cfg_threads' = [cfg_threads EXCEPT ![t] = IdleThread]
    /\ UNCHANGED <<cfg_ghost, shard_vars, http_vars, bitround>>

NextConfig ==
    \E t \in Threads :
        \/ \E guard \in {"read", "write"} : GetOrInit(t, guard)
        \/ GlobalConfigRead(t)
        \/ \E o \in Options : ReadOption(t, o)
        \/ DropRead(t)
        \/ GlobalConfigMutWrite(t)
        \/ \E o \in Options : \E v \in BOOLEAN : SetOption(t, o, v)
        \/ DropWrite(t)

SpecConfig == InitConfig /\ [][NextConfig]_vars

\* ------------------------------- create_metadata next to the configuration

\* A call of create_metadata of a codec with the given keepbits. The call
\* does not touch CONFIG; option and writing are ghosts: the value of
\* experimental_codec_store_metadata_if_encode_only at the call and whether
\* a write guard was held then.
CreateMetadata(keepbits) ==
    /\ bitround' = [called |-> TRUE, keepbits |-> keepbits,
                    option |-> CONFIG.config.experimental_codec_store_metadata_if_encode_only,
                    writing |-> CONFIG.writer # NoThread,
                    result |-> BitroundCodec_create_metadata(BitroundCodec_new(keepbits))]
    /\ UNCHANGED <<shard_vars, config_vars, http_vars>>

NextBitround ==
    \/ NextConfig
    \/ \E keepbits \in Keepbits : CreateMetadata(keepbits)

SpecBitround == InitConfig /\ [][NextBitround]_vars

\* ------------------------------------------------- reads of the HTTPStore

\* The lists of n key ranges.
KeyRangeLists(n) == [1 .. n -> KeyRanges]

InitHttp ==
    /\ ShardIdle
    /\ ConfigInit
    /\ http_store = HTTPStore_new
    /\ http_server \in Servers
    /\ http_build \in [overflow_checks : BOOLEAN]
    /\ http_call = NoHttpCall
    /\ BitroundIdle

\* HTTPStore::set_batch_range_requests (http.rs:61-63)
SetBatchRangeRequests(batch_range_requests) ==
    /\ http_call = NoHttpCall
    /\ http_store' = [http_store EXCEPT !.batch_range_requests = batch_range_requests]
    /\ UNCHANGED <<http_server, http_build, http_call, shard_vars, config_vars, bitround>>

\* A call of get_partial_values, from entry to return or panic.
GetPartialValues(key_ranges) ==
    /\ http_call = NoHttpCall
    /\ LET r == HTTPStore_get_partial_values(http_store, http_server, <<>> \o key_ranges,
                                             http_build.overflow_checks)
       IN http_call' = [op |-> "get_partial_values", key_ranges |-> <<>> \o key_ranges,
                        panic |-> r.panic, out |-> IF r.panic THEN <<>> ELSE r.out,
                        reqs |-> r.reqs]
    /\ UNCHANGED <<http_store, http_server, http_build, shard_vars, config_vars, bitround>>

\* A call of get, from entry to return.
Get(key) ==
    /\ http_call = NoHttpCall
    /\ LET r == HTTPStore_get(http_server, key)
       IN http_call' = [op |-> "get",
                        key_ranges |-> <<[key |-> key, byte_range |-> FromStart(0, 0)]>>,
                        panic |-> r.panic, out |-> r.out, reqs |-> r.reqs]
    /\ UNCHANGED <<http_store, http_server, http_build, shard_vars, config_vars, bitround>>

\* The caller is done with the result of its call and may call again.
DropResult ==
    /\ http_call # NoHttpCall
    /\ http_call' = NoHttpCall
    /\ UNCHANGED <<http_store, http_server, http_build, shard_vars, config_vars, bitround>>

NextHttp ==
    \/ \E b \in BOOLEAN : SetBatchRangeRequests(b)
    \/ \E n \in 0 .. MaxKeyRanges : \E key_ranges \in KeyRangeLists(n) :
          GetPartialValues(key_ranges)
    \/ \E key \in HttpKeys : Get(key)
    \/ DropResult

SpecHttp == InitHttp /\ [][NextHttp]_vars

\* ------------------------------------------------------------ properties

\* What retrieve_chunk returns for the chunk whose values are kv.
DecodedFrom(kv) ==
    retrieve_chunk([kv |-> kv, perf |-> NoPerf], key_0_0,
                   inner_chunk_shape, index_location).out

Decoded == DecodedFrom(store)

\* The stored shard and its parsed index.
ShardBytes == store[key_0_0].bytes

ShardIndex == ShardIndexOf(ShardBytes, inner_chunk_shape, index_location)

\* The inner chunks the parsed index does not mark empty.
LiveChunks == {c \in InnerChunkIds(inner_chunk_shape) : ~IsEmptyEntry(ShardIndex[c + 1])}

\* The shard body is the blob without its index. Offsets count from the
\* start of the blob: the body is [shard_index_size, size) with the index at
\* the start and [0, size - shard_index_size) with the index at the end.
BodyStart == IF index_location = "start" THEN shard_index_size(inner_chunk_shape) ELSE 0

BodyEnd ==
    IF index_location = "start" THEN Len(ShardBytes)
    ELSE Len(ShardBytes) - shard_index_size(inner_chunk_shape)

\* Two byte ranges [o1, o1 + n1) and [o2, o2 + n2) share no byte.
Disjoint(o1, n1, o2, n2) == o1 + n1 <= o2 \/ o2 + n2 <= o1

\* The inner chunks that are the fill value in the chunk as written.
EmptyChunks ==
    {c \in InnerChunkIds(inner_chunk_shape) :
        IsFillValue(InnerChunkData(expected, c, inner_chunk_shape))}

\* C1: with partial encoding enabled, after any sequence of
\* store_array_subset calls the chunk decodes without error to the value of
\* the last write that covered each element, elements no later write
\* covered keeping their value (expected is that chunk), with the index at
\* the start and at the end.
C1_LastWriteWins == Decoded.ok /\ Decoded.elems = expected

\* Row 0 was written and then its first element again: three encodings are
\* in the shard, the decoded chunk has the second write in element 0 and
\* the first write in element 1.
C1_Witness ==
    /\ index_location = "end"
    /\ store[key_0_0].present
    /\ appended = 3
    /\ expected = <<258, 1, 0, 0>>
    /\ Decoded.elems = <<258, 1, 0, 0>>

\* C2: whenever a store_array_subset leaves every inner chunk of the shard
\* equal to the fill value (store_empty_chunks false), the shard key is
\* absent afterwards, also when the key held a non-empty shard before.
C2_AllFillErased == IsFillValue(expected) => ~store[key_0_0].present

\* A partial encode found the key with a non-empty shard and left every
\* element the fill value.
C2_Witness ==
    /\ last.op = "partial_encode"
    /\ last.existed
    /\ last.nonempty_before > 0
    /\ IsFillValue(expected)
    /\ ~store[key_0_0].present

\* A writer is between locking the mutex and dropping its guard.
InPartialEncode(p) ==
    pc[p] \in {"read_index", "read_inner_chunks", "write_inner_chunks", "write_index",
               "unlock", "failed"}

BothDone == \A p \in Procs : pc[p] = "done"

DisjointSubsets == SubsetElems(local[1].subset) \cap SubsetElems(local[2].subset) = {}

\* C3: two concurrent partial encodes of one shard key, one with the mutex
\* of the key taken from the storage and one with it taken through a
\* StorageHandle, never have their steps interleaved (only one of them is
\* between read_index and the end of write_index at a time), neither fails, and
\* when their subsets are disjoint the decoded shard holds both writes.
C3_NoInterleaving ==
    /\ ~(InPartialEncode(1) /\ InPartialEncode(2))
    /\ \A p \in Procs : pc[p] \notin {"failed", "error"}
    /\ (BothDone /\ DisjointSubsets) => (Decoded.ok /\ Decoded.elems = expected)

\* The writers wrote the two elements of one inner chunk, one each, into a
\* stored shard: both are there with the rest of the shard.
C3_Witness ==
    /\ BothDone
    /\ inner_chunk_shape = <<1, 2>>
    /\ SubsetElems(local[1].subset) = {2}
    /\ SubsetElems(local[2].subset) = {3}
    /\ store[key_0_0].present
    /\ Decoded.elems = <<1, 0, 258, 258>>

\* C4: after every step of a sequence of store_array_subset calls, the
\* array with experimental_partial_encoding and the array without it
\* (retrieve, update, store) decode to the same elements.
C4_PartialEncodingEquivalent ==
    /\ Decoded.ok
    /\ DecodedFrom(store_ref).ok
    /\ Decoded.elems = DecodedFrom(store_ref).elems

\* The two stores hold different blobs (the partial encoder kept a stale
\* encoding) that decode to the same non-fill chunk.
C4_Witness ==
    /\ store[key_0_0].present
    /\ store_ref[key_0_0].present
    /\ Len(store[key_0_0].bytes) > Len(store_ref[key_0_0].bytes)
    /\ Decoded.elems = DecodedFrom(store_ref).elems
    /\ ~IsFillValue(Decoded.elems)

EmptyIffSentinel ==
    store[key_0_0].present =>
        \A c \in InnerChunkIds(inner_chunk_shape) :
            c \in EmptyChunks <=> IsEmptyEntry(ShardIndex[c + 1])

\* The byte range of the k-th encoding in the shard body.
SlotOffset(k) == BodyStart + (k - 1) * InnerChunkSize(inner_chunk_shape)

\* The encodings in the shard body that were written for a now empty inner
\* chunk.
SlotsOfEmptyChunks == {k \in 1 .. Len(slots) : slots[k] \in EmptyChunks}

\* C6 as stated: in every stored shard an inner chunk is empty iff its index
\* entry is the sentinel, and the shard body holds no bytes of an empty
\* inner chunk.
C6_EmptyChunkHasNoBytes ==
    /\ EmptyIffSentinel
    /\ store[key_0_0].present => SlotsOfEmptyChunks = {}

\* C6: in every stored shard an inner chunk is empty iff its index entry is
\* the sentinel, and no index entry names a byte of an encoding that was
\* written for a now empty inner chunk (the encoding itself may stay in the
\* shard body as an abandoned slot).
C6_EmptyChunkHasNoLiveBytes ==
    /\ EmptyIffSentinel
    /\ store[key_0_0].present =>
          \A k \in SlotsOfEmptyChunks : \A c \in LiveChunks :
              Disjoint(SlotOffset(k), InnerChunkSize(inner_chunk_shape),
                       ShardIndex[c + 1].offset, ShardIndex[c + 1].nbytes)

\* Elements 0 and 1 were written, then element 0 was overwritten with the
\* fill value: inner chunk 1 is still populated, the encoding of inner chunk
\* 0 is still in the body.
C6_Witness ==
    /\ inner_chunk_shape = <<1, 1>>
    /\ store[key_0_0].present
    /\ expected = <<0, 258, 0, 0>>
    /\ slots = <<0, 1>>
    /\ IsEmptyEntry(ShardIndex[1])
    /\ Len(ShardBytes) = shard_index_size(inner_chunk_shape) + 2 * size_of_u16

\* C7: an element that was never written decodes to the fill value, in an
\* absent shard (every element) and in a stored one.
C7_UnwrittenIsFill ==
    /\ Decoded.ok
    /\ \A e \in ElemIds \ touched : Decoded.elems[e + 1] = fill_value
    /\ ~store[key_0_0].present => Decoded.elems = FillChunk

\* Only row 0 of the shard was written: row 1 decodes to the fill value.
C7_Witness ==
    /\ inner_chunk_shape = <<1, 1>>
    /\ store[key_0_0].present
    /\ touched = {0, 1}
    /\ Decoded.elems = <<258, 258, fill_value, fill_value>>

\* C8: a partial encode does exactly 1 store read when no inner chunk the
\* subset overlaps was non-empty before it and exactly 2 when one was; the
\* index read of an absent key is a read that adds 0 to bytes_read.
C8_Reads ==
    last.op = "partial_encode" =>
        /\ last.nonempty_before = 0 => store_perf.reads = 1
        /\ last.nonempty_before = 1 => store_perf.reads = 2
        /\ ~last.existed => store_perf.reads = 1 /\ store_perf.bytes_read = 0

\* A partial encode over one populated inner chunk of a stored shard: the
\* index and that inner chunk were read.
C8_Witness ==
    /\ last.op = "partial_encode"
    /\ last.existed
    /\ last.nonempty_before = 1
    /\ store_perf.reads = 2
    /\ store_perf.bytes_read =
          shard_index_size(inner_chunk_shape) + InnerChunkSize(inner_chunk_shape)

\* C9: a partial encode that leaves the shard non-empty does one store write
\* for every inner chunk it rewrites and one for the index, whether or not
\* the key existed; one that leaves the shard empty does none.
C9_Writes ==
    last.op = "partial_encode" =>
        store_perf.writes = IF IsFillValue(expected) THEN 0 ELSE last.rewritten + 1

\* A partial encode of a stored shard that rewrote two inner chunks: three
\* writes, and the shard grew.
C9_Witness ==
    /\ last.op = "partial_encode"
    /\ last.existed
    /\ last.rewritten = 2
    /\ store_perf.writes = 3
    /\ store[key_0_0].present
    /\ appended = 3

C11_ConfigWritesPersist ==
    /\ CONFIG.inits <= 1
    /\ CONFIG.initialised <=> CONFIG.inits = 1
    /\ ~CONFIG.initialised => \A t \in Threads : cfg_threads[t].pc = "idle"
    /\ \A o \in Options : CONFIG.config[o] = cfg_ghost.latest[o]
    /\ \A t \in Threads : \A o \in Options :
          cfg_threads[t].seen[o].read =>
              cfg_threads[t].seen[o].value = cfg_threads[t].seen[o].latest

\* validate_checksums was set to false under the first write handle and is
\* read as false (config.rs:280-281).
C11_Witness ==
    /\ CONFIG.inits = 1
    /\ cfg_ghost.handles = 1
    /\ cfg_threads[1].seen["validate_checksums"] =
          [read |-> TRUE, value |-> FALSE, latest |-> FALSE, handle |-> 1]

HoldsWrite(t) == cfg_threads[t].pc = "writing"

HoldsRead(t) == cfg_threads[t].pc = "reading"

\* C12: while a thread holds the handle of global_config_mut() no other
\* thread holds a read or a write handle, and the options a reader reads
\* under one read handle were all set under the same write handle (it never
\* sees some but not all of the options set under one handle).
C12_ConfigExclusive ==
    /\ \A t \in Threads : HoldsWrite(t) =>
          \A u \in Threads \ {t} : ~HoldsWrite(u) /\ ~HoldsRead(u)
    /\ \A t \in Threads : \A o1, o2 \in Options :
          (cfg_threads[t].seen[o1].read /\ cfg_threads[t].seen[o2].read) =>
              cfg_threads[t].seen[o1].handle = cfg_threads[t].seen[o2].handle

\* Two readers hold read handles at once; one of them has read both options
\* as the second write handle set them.
C12_Witness ==
    /\ HoldsRead(1)
    /\ HoldsRead(2)
    /\ cfg_threads[1].seen["validate_checksums"].read
    /\ cfg_threads[1].seen["validate_checksums"].handle = 2
    /\ cfg_threads[1].seen["experimental_codec_store_metadata_if_encode_only"] =
          [read |-> TRUE, value |-> TRUE, latest |-> TRUE, handle |-> 2]

\* ------------------------------------------------ properties of HTTPStore

\* The last call was get_partial_values (it returned or it panicked).
CalledGetPartialValues == http_call.op = "get_partial_values"

\* The positions of the GET requests among the requests the call sent.
Gets == {j \in 1 .. Len(http_call.reqs) : http_call.reqs[j].method = "GET"}

\* The first positions of the maximal runs of consecutive key ranges that
\* name the same key.
Runs ==
    {i \in 1 .. Len(http_call.key_ranges) :
        i = 1 \/ http_call.key_ranges[i].key # http_call.key_ranges[i - 1].key}

\* The first positions of the groups that get one request each.
Groups ==
    IF http_store.batch_range_requests THEN Runs ELSE 1 .. Len(http_call.key_ranges)

\* The server answers a ranged GET of the key with its bytes.
Served(key) ==
    /\ http_server[key].present
    /\ http_server[key].content_length
    /\ http_server[key].mode \in {"206", "200"}

\* The ranged GET of the key is sent and fails.
GetFails(key) ==
    /\ http_server[key].content_length
    /\ ~http_server[key].present \/ http_server[key].mode \in {"206_short", "500"}

\* The bytes [start, end) of the value of the key of a key range.
ExpectedBytes(key_range) ==
    LET value == HttpValues[key_range.key]
    IN Slice(value, RangeStart(key_range.byte_range, Len(value)),
                    RangeEnd(key_range.byte_range, Len(value)))

\* C13 as stated: get_partial_values issues exactly one ranged GET per
\* maximal run of consecutive key ranges of the same key when
\* batch_range_requests is true, and exactly one per key range when it is
\* false.
C13_OneGetPerGroup ==
    CalledGetPartialValues => Cardinality(Gets) = Cardinality(Groups)

\* C13 amended: get_partial_values issues at most one ranged GET per maximal
\* run (batched) or per key range (unbatched), and when it returns it has
\* issued exactly one for every group whose HEAD response carried a
\* Content-Length and none for the other groups.
C13_AtMostOneGetPerGroup ==
    CalledGetPartialValues =>
        /\ Cardinality(Gets) <= Cardinality(Groups)
        /\ \A j \in Gets : http_call.reqs[j].range # <<>>
        /\ ~http_call.panic =>
              Cardinality(Gets) = Cardinality(
                  {i \in Groups : http_server[http_call.key_ranges[i].key].content_length})

\* A batched call of three key ranges in two runs returned after two GETs.
C13_Witness ==
    /\ CalledGetPartialValues
    /\ http_store.batch_range_requests
    /\ ~http_call.panic
    /\ Len(http_call.key_ranges) = 3
    /\ Cardinality(Runs) = 2
    /\ Cardinality(Gets) = 2

\* C14: for every list of key ranges whose keys the server answers with 206
\* or 200, get_partial_values returns one result per key range in input
\* order and result i is the bytes [start_i, end_i) of the value of key i.
C14_ResultsAreTheRanges ==
    (/\ CalledGetPartialValues
     /\ \A i \in 1 .. Len(http_call.key_ranges) : Served(http_call.key_ranges[i].key))
    => /\ ~http_call.panic
       /\ Len(http_call.out) = Len(http_call.key_ranges)
       /\ \A i \in 1 .. Len(http_call.key_ranges) :
             http_call.out[i] = Ok(ExpectedBytes(http_call.key_ranges[i]))

\* C15: a key range whose resolved start equals its resolved end, of a key
\* the server answers, gets an empty byte vector: no overflow in building the
\* Range header and no error.
C15_ZeroLengthRangeIsEmptyRead ==
    CalledGetPartialValues =>
        \A i \in 1 .. Len(http_call.key_ranges) :
            (/\ http_call.key_ranges[i].byte_range.length = 0
             /\ Served(http_call.key_ranges[i].key))
            => /\ ~http_call.panic
               /\ i <= Len(http_call.out)
               /\ http_call.out[i] = Ok(<<>>)

\* C16: every read of a key the server answers with 404 reports KeyNotFound,
\* never bytes: get as well as get_partial_values.
C16_AbsentKeyIsKeyNotFound ==
    http_call.op \in {"get", "get_partial_values"} =>
        \A i \in 1 .. Len(http_call.out) :
            ~http_server[http_call.key_ranges[i].key].present
                => http_call.out[i] = Err("KeyNotFound")

\* C20: when the ranged GET of a group fails, get_partial_values returns an
\* error for every range of the group (KeyNotFound for 404) and no bytes, and
\* the ranges of the keys the server answers get their bytes all the same.
C20_FailedGroupIsAllErrors ==
    CalledGetPartialValues =>
        \A i \in 1 .. Len(http_call.key_ranges) :
            LET key == http_call.key_ranges[i].key
            IN /\ GetFails(key) =>
                    /\ ~http_call.panic
                    /\ i <= Len(http_call.out)
                    /\ http_call.out[i] =
                          IF http_server[key].present THEN Err("Other")
                          ELSE Err("KeyNotFound")
               /\ (/\ Served(key)
                   /\ \A j \in 1 .. Len(http_call.key_ranges) :
                         http_call.key_ranges[j].byte_range.length > 0)
                  => /\ ~http_call.panic
                     /\ i <= Len(http_call.out)
                     /\ http_call.out[i] = Ok(ExpectedBytes(http_call.key_ranges[i]))

\* ---------------------------------------------- properties of BitroundCodec

\* C17: create_metadata returns no metadata when the option
\* experimental_codec_store_metadata_if_encode_only is false and the
\* metadata of the codec (its name and keepbits) when the option is true.
C17_MetadataFollowsOption ==
    (bitround.called /\ ~bitround.writing) =>
        bitround.result =
            IF bitround.option THEN SomeMetadata("bitround", bitround.keepbits)
            ELSE NoMetadata

\* ------------------------------------- reads and writes of a partial encode

\* C18 as stated: an inner chunk that the subset fully covers is never read
\* in a partial encode; only partly covered non-empty inner chunks are: the
\* reads are the index read and one for each of those.
C18_CoveredChunkNotRead ==
    last.op = "partial_encode" => store_perf.reads = 1 + last.partly_nonempty

\* C18 amended: a partial encode reads the index and every inner chunk the
\* subset overlaps that was non-empty before, fully covered or not, with one
\* ranged read each; inner chunks that were empty are not read.
C18_NonEmptyChunkRead ==
    last.op = "partial_encode" =>
        /\ store_perf.reads = 1 + last.covered_nonempty + last.partly_nonempty
        /\ store_perf.bytes_read =
              (IF last.existed THEN shard_index_size(inner_chunk_shape) ELSE 0)
              + (last.covered_nonempty + last.partly_nonempty)
                    * InnerChunkSize(inner_chunk_shape)

\* A partial encode whose subset fully covers a non-empty inner chunk and no
\* other non-empty inner chunk: the index and that inner chunk were read.
C18_Witness ==
    /\ last.op = "partial_encode"
    /\ last.covered_nonempty = 1
    /\ last.partly_nonempty = 0
    /\ store_perf.reads = 2

\* C19 as stated: a partial encode that leaves the shard non-empty does
\* exactly one store write when the stored size of the shard changes (also
\* when the key did not exist).
C19_OneFullWriteOnResize ==
    (/\ last.op = "partial_encode"
     /\ ~IsFillValue(expected)
     /\ last.size_after # last.size_before)
    => store_perf.writes = 1

\* C19 amended: a partial encode that leaves the shard non-empty does one
\* store write for every inner chunk it rewrites, which is appended to the
\* shard, and one for the index, whether the stored size changes or not; the
\* size is unchanged only when no inner chunk is rewritten, and then the
\* index is the only write.
C19_WritePerChunkAndIndex ==
    (last.op = "partial_encode" /\ ~IsFillValue(expected)) =>
        /\ store_perf.writes = last.rewritten + 1
        /\ last.size_after =
              (IF last.existed THEN last.size_before
               ELSE shard_index_size(inner_chunk_shape))
              + last.rewritten * InnerChunkSize(inner_chunk_shape)
        /\ last.size_after = last.size_before =>
              last.existed /\ last.rewritten = 0 /\ store_perf.writes = 1

\* The first partial encode of an absent key: the size changes from 0 and
\* the inner chunk and the index are written in two writes.
C19_Witness ==
    /\ last.op = "partial_encode"
    /\ ~last.existed
    /\ last.rewritten = 1
    /\ last.size_after = shard_index_size(inner_chunk_shape)
                            + InnerChunkSize(inner_chunk_shape)
    /\ store_perf.writes = 2

\* --------------------------------------------- a reader beside one writer

\* C21 as stated: a retrieve_chunk that runs beside a partial encode of the
\* same key returns the chunk as it was before the encode or as it is after
\* it, never a mixture and never a decode error, for both index locations.
C21_ReaderSeesBeforeOrAfter ==
    reader.done => reader.ok /\ reader.elems \in {reader.before, expected}

\* C21 amended: the retrieve_chunk returns the chunk as it was before the
\* encode or as it is after it, without a decode error, when the index is at
\* the start and the key held a shard before the encode, and for either
\* index location when it reads the store outside the write steps of the
\* encode (before its first inner-chunk write or after its index write).
C21_ReaderSeesBeforeOrAfterOutsideWrites ==
    (/\ reader.done
     /\ \/ reader.during \notin {"write_inner_chunks", "write_index"}
        \/ index_location = "start" /\ ~IsFillValue(reader.before))
    => reader.ok /\ reader.elems \in {reader.before, expected}

\* With the index at the start, a read between the inner-chunk writes and
\* the index write of an encode that changes a stored shard returned the
\* chunk as it was before.
C21_Witness ==
    /\ reader.done
    /\ reader.during = "write_index"
    /\ index_location = "start"
    /\ ~IsFillValue(reader.before)
    /\ expected # reader.before
    /\ ~IsFillValue(expected)
    /\ reader.ok
    /\ reader.elems = reader.before

====
